---- MODULE Spec2Model ----
(***************************************************************************)
(* A model of the ray tracer's renderer (src/src/renderer.rs):             *)
(*   - render_scene, with its single-threaded scan and its fork-join       *)
(*     threaded path (4 workers, one band of logical rows each, private    *)
(*     result lists, merge by the calling thread);                         *)
(*   - trace_ray's recursion over reflection and refraction rays, with the *)
(*     colours it computes (fixed point), and Scene::intersect             *)
(*     (src/src/scene.rs);                                                 *)
(*   - the quality controller of the main loop (src/src/main.rs);          *)
(*   - Cube::ray_intersect (src/src/cube.rs).                              *)
(***************************************************************************)
EXTENDS Integers, Sequences, FiniteSets, TLC

\* ------------------------------------------------------------------ bounds
MaxWidth  == 2
MaxHeight == 5
MaxScale  == 2
MaxPrims  == 2    \* cubes in a scene, meshes in a scene, distinct hit distances

\* ------------------------------------------------------- program constants
MAX_DEPTH   == 5
num_threads == 4

VARIABLES
    width, height, render_scale,   \* arguments of render_scene
    use_threading,                 \* argument of render_scene
    initial,                       \* the pixel buffer as the caller hands it over
    buffer,                        \* the caller-owned pixel buffer
    pc,                            \* where the thread calling render_scene is
    sy, sx,                        \* loop position of render_single_threaded
    thread_id,                     \* spawn loop counter of render_threaded
    handles,                       \* join handles not yet consumed, in push order
    worker,                        \* per worker thread: status, band, position, local_pixels
    joined,                        \* workers whose handle.join() has returned
    mutex,                         \* owner of the Mutex around the buffer
    oob_write,                     \* an index outside the buffer was written (Rust panics)
    result,                        \* what render_scene returned to its caller
    call, first_buffer,            \* the two calls on one input, and the first one's image
    stack, ret,                    \* trace_ray: activation records, how the last call returned
    color, queries,                \* the colour the last call returned, its scene.intersect calls
    scene,                         \* which rays the scene offers to trace_ray
    cubes, meshes,                 \* Scene::intersect: what each primitive reports for the ray
    found,                         \* Scene::intersect: what it returned
    quality_level, manual_quality_level, auto_quality,   \* main: quality controller
    fps_history, fps_check_timer,  \* main: recent FPS samples, time since the last check
    avg_fps,                       \* main: the average the check of this frame found, or -1
    day_time,                      \* main: time of day, in hundredths
    sample_time,                   \* the day_time trace_ray gave Skybox::sample in the last frame, or -1
    cube, ray,                     \* Cube::ray_intersect: self (min, max) and the ray
    hit,                           \* Cube::ray_intersect: the Intersect it returned
    hit_point, normal,             \* Cube::get_normal: its argument and what it returned
    triangle, tri_t,               \* Triangle::intersect: self (v0, v1, v2) and what it returned
    sky_args, sky_out              \* Skybox::sample: its inputs and what it computed

render_vars == <<width, height, render_scale, use_threading, initial, buffer, pc,
                 sy, sx, thread_id, handles, worker, joined, mutex, oob_write,
                 result, call, first_buffer>>
trace_vars  == <<stack, ret, color, queries, scene>>
isect_vars  == <<cubes, meshes, found>>
main_vars   == <<quality_level, manual_quality_level, auto_quality,
                 fps_history, fps_check_timer, avg_fps, day_time, sample_time>>
cube_vars   == <<cube, ray, hit, hit_point, normal>>
tri_vars    == <<triangle, tri_t>>
sky_vars    == <<sky_args, sky_out>>
lib_vars    == <<isect_vars, main_vars, cube_vars, tri_vars, sky_vars>>
vars        == <<render_vars, trace_vars, lib_vars>>

Threads == 0 .. (num_threads - 1)

\* ---------------------------------------------------------------- helpers
Min(a, b) == IF a < b THEN a ELSE b

RECURSIVE GCD(_, _)
GCD(a, b) == IF b = 0 THEN a ELSE GCD(b, a % b)

\* sx as f32 / scaled_width as f32: the quotient of two small integers; two
\* such quotients are the same float exactly when they are the same rational,
\* so the value is kept as the fraction in lowest terms.
Frac(n, d) == LET g == GCD(n, d) IN <<n \div g, d \div g>>

\* renderer.rs:17-18
ScaledWidth  == width \div render_scale
ScaledHeight == height \div render_scale

\* The colour of the logical sample with camera coordinates (u, v):
\* camera.get_ray(u, v), trace_ray(.., 0), to_raylib(). The scene and the
\* camera are fixed during a call, so the colour is a function of (u, v);
\* it is kept injective so that any two different samples can be told apart.
ColorAt(a, sw, b, sh) == <<Frac(a, sw), Frac(b, sh)>>
SampleColor(a, b) == ColorAt(a, ScaledWidth, b, ScaledHeight)

\* renderer.rs:51 / 105
\* Faulty variant: row and column exchanged.
PixelIdxSwapped(x, y) == x * width + y
PixelIdx(x, y) == y * width + x

InBuffer(idx) == idx >= 0 /\ idx < width * height

\* renderer.rs:46-55 / 100-109: the (idx, colour) pairs of the k x k block of
\* logical sample (a, b), in loop order (dy outer, dx inner), clipped to the image.
BlockPixels(a, b) ==
    LET k == render_scale
        all == [i \in 1 .. (k * k) |->
                  LET dy == (i - 1) \div k
                      dx == (i - 1) % k
                  IN  <<a * k + dx, b * k + dy>>]
        Inside(p) == p[1] < width /\ p[2] < height
        kept == SelectSeq(all, Inside)
    IN  [i \in 1 .. Len(kept) |-> <<PixelIdx(kept[i][1], kept[i][2]), SampleColor(a, b)>>]

\* buffer[idx] = color for every pair of the list, in order.
RECURSIVE ApplyPixels(_, _)
ApplyPixels(buf, pixels) ==
    IF pixels = <<>> THEN buf
    ELSE LET p == Head(pixels)
         IN  ApplyPixels([i \in DOMAIN buf |-> IF i = p[1] THEN p[2] ELSE buf[i]],
                         Tail(pixels))

AnyOutside(pixels) == \E i \in 1 .. Len(pixels) : ~InBuffer(pixels[i][1])

\* Is there a sample left at row b of a scan that ends before row e?
HasSample(b, e) == b < e /\ ScaledWidth > 0

\* The next (sx, sy) of the two nested for loops.
NextSx(a) == IF a + 1 < ScaledWidth THEN a + 1 ELSE 0
NextSy(a, b) == IF a + 1 < ScaledWidth THEN b ELSE b + 1

\* renderer.rs:78
\* Faulty variant: division rounding down, which loses the remainder rows.
RowsPerThreadFloor == ScaledHeight \div num_threads
rows_per_thread == (ScaledHeight + num_threads - 1) \div num_threads

\* renderer.rs:86-87
\* Faulty variant: a band that also takes the first row of the next one.
EndRowInclusive(t) == Min((t + 1) * rows_per_thread + 1, ScaledHeight)
start_row(t) == t * rows_per_thread
end_row(t) == Min((t + 1) * rows_per_thread, ScaledHeight)

NoWorker == [status |-> "unspawned", start_row |-> 0, end_row |-> 0,
             sy |-> 0, sx |-> 0, local_pixels |-> <<>>]

\* The buffers a caller may hand over: main.rs:55 (all black), or one whose
\* every pixel is different (a previous frame). A pixel value is a pair of
\* pairs, like a sample's colour; a zero second component marks content that
\* no sample of this call produces.
BLACK == <<<<0, 0>>, <<0, 0>>>>
Previous(i) == <<<<i + 1, 0>>, <<0, 0>>>>
InitialBuffers(w, h) ==
    { [i \in 0 .. (w * h - 1) |-> BLACK],
      [i \in 0 .. (w * h - 1) |-> Previous(i)] }

\* ------------------------------------------------------------------- Init
InitRender ==
    /\ width \in 0 .. MaxWidth
    /\ height \in 0 .. MaxHeight
    /\ render_scale \in 1 .. MaxScale
    /\ use_threading \in BOOLEAN
    /\ initial \in InitialBuffers(width, height)
    /\ buffer = initial
    /\ pc = "idle"
    /\ sy = 0 /\ sx = 0
    /\ thread_id = 0
    /\ handles = <<>>
    /\ worker = [t \in Threads |-> NoWorker]
    /\ joined = {}
    /\ mutex = "free"
    /\ oob_write = FALSE
    /\ result = "none"
    /\ call = 1
    /\ first_buffer = initial

IdleTrace ==
    /\ stack = <<>> /\ ret = "none"
    /\ color = <<0, 0, 0>> /\ queries = 0
    /\ scene = "basic"

\* Nothing but the renderer runs.
\* main.rs:42-50: the main loop's variables before its first iteration.
InitController ==
    /\ quality_level = 1
    /\ manual_quality_level = 1
    /\ auto_quality = FALSE
    /\ fps_history = <<>>
    /\ fps_check_timer = 0
    /\ avg_fps = -1
    /\ day_time = 0
    /\ sample_time = -1

\* Cube::ray_intersect has not been called: no Intersect value yet.
NoIntersect == [is_intersecting |-> FALSE, distance |-> -1]

\* No cube is being tested.
IdleCube ==
    /\ cube = [min |-> <<0, 0, 0>>, max |-> <<0, 0, 0>>]
    /\ ray = [origin |-> <<0, 0, 0>>, direction |-> <<0, 0, 0>>]
    /\ hit = NoIntersect
    /\ hit_point = <<0, 0, 0>>
    /\ normal = <<0, 0, 0>>

\* No triangle is being tested.
IdleTriangle ==
    /\ triangle = <<<<0, 0, 0>>, <<0, 0, 0>>, <<0, 0, 0>>>>
    /\ tri_t = <<0>>

\* The sky is not being sampled.
IdleSky ==
    /\ sky_args = <<>>
    /\ sky_out = <<>>

IdleLib ==
    /\ cubes = <<>> /\ meshes = <<>> /\ found = <<0>>
    /\ InitController
    /\ IdleCube
    /\ IdleTriangle
    /\ IdleSky

Init == InitRender /\ IdleTrace /\ IdleLib

\* ------------------------------------------------------------ render_scene
\* renderer.rs:8-25: the call, dispatching on use_threading.
RenderScene ==
    /\ pc = "idle"
    /\ pc' = IF use_threading THEN "spawn" ELSE "single"
    /\ sy' = 0 /\ sx' = 0
    /\ thread_id' = 0
    /\ UNCHANGED <<trace_vars, lib_vars, width, height, render_scale, use_threading, initial, buffer,
                   handles, worker, joined, mutex, oob_write, result, call,
                   first_buffer>>

\* renderer.rs:37-57: one iteration of the inner loop (one logical sample).
SingleStep ==
    /\ pc = "single"
    /\ HasSample(sy, ScaledHeight)
    /\ LET pixels == BlockPixels(sx, sy)
       IN  /\ buffer' = ApplyPixels(buffer, pixels)
           /\ oob_write' = (oob_write \/ AnyOutside(pixels))
    /\ sx' = NextSx(sx)
    /\ sy' = NextSy(sx, sy)
    /\ UNCHANGED <<trace_vars, lib_vars, width, height, render_scale, use_threading, initial, pc,
                   thread_id, handles, worker, joined, mutex, result, call,
                   first_buffer>>

\* renderer.rs:58 and 25: the loops are over, render_scene returns ().
SingleReturn ==
    /\ pc = "single"
    /\ ~HasSample(sy, ScaledHeight)
    /\ pc' = "returned"
    /\ result' = "unit"
    /\ UNCHANGED <<trace_vars, lib_vars, width, height, render_scale, use_threading, initial, buffer,
                   sy, sx, thread_id, handles, worker, joined, mutex, oob_write,
                   call, first_buffer>>

\* --------------------------------------------------------- render_threaded
\* renderer.rs:82-117: one iteration of the spawn loop.
\* Faulty variant: the handle is not pushed, so the thread is never joined.
SpawnDetached ==
    /\ pc = "spawn"
    /\ thread_id < num_threads
    /\ worker' = [worker EXCEPT ![thread_id] =
                    [status |-> "running",
                     start_row |-> start_row(thread_id),
                     end_row |-> end_row(thread_id),
                     sy |-> start_row(thread_id), sx |-> 0,
                     local_pixels |-> <<>>]]
    /\ handles' = handles
    /\ thread_id' = thread_id + 1
    /\ pc' = IF thread_id + 1 < num_threads THEN "spawn" ELSE "join"
    /\ UNCHANGED <<trace_vars, lib_vars, width, height, render_scale, use_threading, initial, buffer,
                   sy, sx, joined, mutex, oob_write, result, call, first_buffer>>

Spawn ==
    /\ pc = "spawn"
    /\ thread_id < num_threads
    /\ worker' = [worker EXCEPT ![thread_id] =
                    [status |-> "running",
                     start_row |-> start_row(thread_id),
                     end_row |-> end_row(thread_id),
                     sy |-> start_row(thread_id), sx |-> 0,
                     local_pixels |-> <<>>]]
    /\ handles' = Append(handles, thread_id)
    /\ thread_id' = thread_id + 1
    /\ pc' = IF thread_id + 1 < num_threads THEN "spawn" ELSE "join"
    /\ UNCHANGED <<trace_vars, lib_vars, width, height, render_scale, use_threading, initial, buffer,
                   sy, sx, joined, mutex, oob_write, result, call, first_buffer>>

\* renderer.rs:92-111 in worker t: one logical sample, pushed to local_pixels.
\* Faulty variant: the worker writes its pixels straight into the shared buffer.
WorkerStepShared(t) ==
    /\ worker[t].status = "running"
    /\ HasSample(worker[t].sy, worker[t].end_row)
    /\ mutex = "free"
    /\ LET w == worker[t]
           pixels == BlockPixels(w.sx, w.sy)
       IN  /\ buffer' = ApplyPixels(buffer, pixels)
           /\ worker' = [worker EXCEPT ![t] =
                  [w EXCEPT !.sx = NextSx(w.sx), !.sy = NextSy(w.sx, w.sy)]]
    /\ UNCHANGED <<trace_vars, lib_vars, width, height, render_scale, use_threading, initial, pc,
                   sy, sx, thread_id, handles, joined, mutex, oob_write, result,
                   call, first_buffer>>

WorkerStep(t) ==
    /\ worker[t].status = "running"
    /\ HasSample(worker[t].sy, worker[t].end_row)
    /\ LET w == worker[t]
           pixels == BlockPixels(w.sx, w.sy)
       IN  worker' = [worker EXCEPT ![t] =
                  [w EXCEPT !.local_pixels = w.local_pixels \o pixels,
                            !.sx = NextSx(w.sx), !.sy = NextSy(w.sx, w.sy)]]
    /\ UNCHANGED <<trace_vars, lib_vars, width, height, render_scale, use_threading, initial, buffer,
                   pc, sy, sx, thread_id, handles, joined, mutex, oob_write,
                   result, call, first_buffer>>

\* renderer.rs:113: the closure returns local_pixels, the thread ends.
WorkerFinish(t) ==
    /\ worker[t].status = "running"
    /\ ~HasSample(worker[t].sy, worker[t].end_row)
    /\ worker' = [worker EXCEPT ![t].status = "finished"]
    /\ UNCHANGED <<trace_vars, lib_vars, width, height, render_scale, use_threading, initial, buffer,
                   pc, sy, sx, thread_id, handles, joined, mutex, oob_write,
                   result, call, first_buffer>>

\* A worker thread fails (panics) somewhere in renderer.rs:89-114: its stack
\* unwinds, local_pixels is dropped, join will return Err.
WorkerPanic(t) ==
    /\ worker[t].status = "running"
    /\ worker' = [worker EXCEPT ![t].status = "panicked",
                                ![t].local_pixels = <<>>]
    /\ UNCHANGED <<trace_vars, lib_vars, width, height, render_scale, use_threading, initial, buffer,
                   pc, sy, sx, thread_id, handles, joined, mutex, oob_write,
                   result, call, first_buffer>>

Worker(t) == WorkerStep(t) \/ WorkerFinish(t) \/ WorkerPanic(t)

\* renderer.rs:119-121: handle.join() of the next handle returns Ok(pixels);
\* the calling thread locks the buffer.
\* Faulty variant: the results are taken without waiting for the worker to end.
JoinNoWait ==
    /\ pc = "join"
    /\ handles # <<>>
    /\ worker[Head(handles)].status \in {"running", "finished"}
    /\ mutex = "free"
    /\ joined' = joined \cup {Head(handles)}
    /\ mutex' = "main"
    /\ pc' = "merge"
    /\ UNCHANGED <<trace_vars, lib_vars, width, height, render_scale, use_threading, initial, buffer,
                   sy, sx, thread_id, handles, worker, oob_write, result, call,
                   first_buffer>>

JoinOk ==
    /\ pc = "join"
    /\ handles # <<>>
    /\ worker[Head(handles)].status = "finished"
    /\ mutex = "free"
    /\ joined' = joined \cup {Head(handles)}
    /\ mutex' = "main"
    /\ pc' = "merge"
    /\ UNCHANGED <<trace_vars, lib_vars, width, height, render_scale, use_threading, initial, buffer,
                   sy, sx, thread_id, handles, worker, oob_write, result, call,
                   first_buffer>>

\* renderer.rs:122-125: copy the joined worker's pixels, drop the lock guard.
Merge ==
    /\ pc = "merge"
    /\ mutex = "main"
    /\ LET pixels == worker[Head(handles)].local_pixels
       IN  /\ buffer' = ApplyPixels(buffer, pixels)
           /\ oob_write' = (oob_write \/ AnyOutside(pixels))
    /\ mutex' = "free"
    /\ handles' = Tail(handles)
    /\ pc' = "join"
    /\ UNCHANGED <<trace_vars, lib_vars, width, height, render_scale, use_threading, initial, sy, sx,
                   thread_id, worker, joined, result, call, first_buffer>>

\* Faulty variant: on a failed join the worker's band is cleared to black.
JoinErrClear ==
    /\ pc = "join"
    /\ handles # <<>>
    /\ worker[Head(handles)].status = "panicked"
    /\ joined' = joined \cup {Head(handles)}
    /\ handles' = Tail(handles)
    /\ buffer' = [i \in DOMAIN buffer |->
                    IF (i \div width) \div render_scale >= worker[Head(handles)].start_row
                       /\ (i \div width) \div render_scale < worker[Head(handles)].end_row
                    THEN BLACK ELSE buffer[i]]
    /\ UNCHANGED <<trace_vars, lib_vars, width, height, render_scale, use_threading, initial,
                   pc, sy, sx, thread_id, worker, mutex, oob_write, result, call,
                   first_buffer>>

\* renderer.rs:120: handle.join() returns Err, the if-let does not match and
\* the loop goes on to the next handle.
JoinErr ==
    /\ pc = "join"
    /\ handles # <<>>
    /\ worker[Head(handles)].status = "panicked"
    /\ joined' = joined \cup {Head(handles)}
    /\ handles' = Tail(handles)
    /\ UNCHANGED <<trace_vars, lib_vars, width, height, render_scale, use_threading, initial, buffer,
                   pc, sy, sx, thread_id, worker, mutex, oob_write, result, call,
                   first_buffer>>

\* renderer.rs:126-127 and 25: every handle consumed, render_scene returns ().
ThreadedReturn ==
    /\ pc = "join"
    /\ handles = <<>>
    /\ pc' = "returned"
    /\ result' = "unit"
    /\ UNCHANGED <<trace_vars, lib_vars, width, height, render_scale, use_threading, initial, buffer,
                   sy, sx, thread_id, handles, worker, joined, mutex, oob_write,
                   call, first_buffer>>

AnyPanicked == \E t \in Threads : worker[t].status = "panicked"

\* The same scene, camera, size, scale and initial buffer rendered a second
\* time with the other value of use_threading (main.rs:85 toggles it between
\* two calls of main.rs:131-140); the first image is kept for comparison.
SecondCall ==
    /\ pc = "returned"
    /\ call = 1
    /\ ~AnyPanicked
    /\ call' = 2
    /\ first_buffer' = buffer
    /\ buffer' = initial
    /\ use_threading' = ~use_threading
    /\ pc' = "idle"
    /\ sy' = 0 /\ sx' = 0
    /\ thread_id' = 0
    /\ handles' = <<>>
    /\ worker' = [t \in Threads |-> NoWorker]
    /\ joined' = {}
    /\ result' = "none"
    /\ UNCHANGED <<trace_vars, lib_vars, width, height, render_scale, initial, mutex, oob_write>>

Scheduler ==
    \/ RenderScene \/ SingleStep \/ SingleReturn
    \/ Spawn \/ JoinOk \/ Merge \/ JoinErr \/ ThreadedReturn
    \/ SecondCall

Next ==
    \/ RenderScene \/ SingleStep \/ SingleReturn
    \/ Spawn \/ JoinOk \/ Merge \/ JoinErr \/ ThreadedReturn
    \/ SecondCall
    \/ \E t \in Threads : WorkerStep(t)
    \/ \E t \in Threads : WorkerFinish(t)
    \/ \E t \in Threads : WorkerPanic(t)

Spec == Init /\ [][Next]_vars

\* The program's own first frame: main.rs:44 (use_threading = true) and
\* main.rs:55 (a black buffer).
InitThreaded ==
    /\ Init
    /\ use_threading
    /\ initial = [i \in 0 .. (width * height - 1) |-> BLACK]

\* The operating system runs every thread that can run.
FairSpec == InitThreaded /\ [][Next]_vars
                /\ WF_vars(Scheduler)
                /\ \A t \in Threads : WF_vars(Worker(t))

\* ---------------------------------------------------------------- trace_ray
\* The f32 value 1.0 in fixed point: a colour channel, a reflectivity, a
\* transparency, a dot product and a light intensity x are held as x * One.
One == 20

Max(a, b) == IF a >= b THEN a ELSE b

\* Color::black()
Black == <<0, 0, 0>>

\* renderer.rs:148  Color::new(0.4, 0.4, 0.45)
ambient == <<8, 8, 9>>

\* Color's operators: channel-wise sum, channel-wise product, product with a
\* scalar, and clamp of every channel to [0.0, 1.0].
CAdd(a, b)   == [i \in 1 .. 3 |-> a[i] + b[i]]
CMul(a, b)   == [i \in 1 .. 3 |-> (a[i] * b[i]) \div One]
CScale(a, k) == [i \in 1 .. 3 |-> (a[i] * k) \div One]
clamp(a) == [i \in 1 .. 3 |-> Max(0, Min(a[i], One))]

\* What the scene and the vector arithmetic give for one ray: whether
\* scene.intersect finds a hit; the sky's colour along the ray before
\* Skybox::sample clamps it; and for a hit the material's emissive colour,
\* get_color(u, v), reflectivity, transparency, whether refract() returns a
\* direction, whether the shadow ray is blocked, normal . light_dir, and the
\* sun's colour and intensity.
Miss(sky) ==
    [hit |-> FALSE, sky_base |-> sky, emissive |-> Black, surface |-> Black,
     reflectivity |-> 0, transparency |-> 0, refracts |-> FALSE,
     in_shadow |-> FALSE, ndotl |-> 0, sun_color |-> Black, sun_intensity |-> 0]

Emitter(e) ==
    [hit |-> TRUE, sky_base |-> Black, emissive |-> e, surface |-> Black,
     reflectivity |-> 0, transparency |-> 0, refracts |-> FALSE,
     in_shadow |-> FALSE, ndotl |-> 0, sun_color |-> Black, sun_intensity |-> 0]

Surface(c, r, t, refr, shadow, nl, sun) ==
    [hit |-> TRUE, sky_base |-> Black, emissive |-> Black, surface |-> c,
     reflectivity |-> r, transparency |-> t, refracts |-> refr,
     in_shadow |-> shadow, ndotl |-> nl, sun_color |-> <<20, 20, 18>>,
     sun_intensity |-> sun]

\* Any scene, as far as control flow goes: a ray misses (two different skies),
\* hits an emitter, or hits a lit surface with or without reflection,
\* transparency and a refracted direction.
BasicRays ==
    {Miss(<<10, 14, 20>>), Miss(<<4, 4, 8>>), Emitter(<<6, 2, 3>>)}
    \cup {Surface(<<12, 12, 12>>, r, t[1], t[2], FALSE, 10, 20) :
            r \in {0, One}, t \in {<<0, FALSE>>, <<One, FALSE>>, <<One, TRUE>>}}

\* Lighting of a hit: shadow ray blocked, or free with the light behind,
\* grazing, oblique or along the normal, under a weak or a strong sun.
Lightings == {<<TRUE, 20, 24>>, <<FALSE, -10, 24>>, <<FALSE, 0, 24>>,
              <<FALSE, 10, 6>>, <<FALSE, 20, 24>>}

\* The primary ray of a shaded scene: skies within and beyond the display
\* range (sun disk), emitters with one weak channel and with channels above
\* 1.0, and surfaces with partial and full reflectivity and transparency.
ShadedRays ==
    {Miss(<<10, 14, 20>>), Miss(<<60, 60, 55>>),
     Emitter(<<0, 0, 1>>), Emitter(<<30, 20, 6>>)}
    \cup {Surface(<<20, 17, 0>>, r, t[1], t[2], l[1], l[2], l[3]) :
            r \in {0, 10, One},
            t \in {<<0, FALSE>>, <<10, FALSE>>, <<10, TRUE>>, <<One, TRUE>>},
            l \in Lightings}

\* The secondary rays of a shaded scene.
DeepRays ==
    {Miss(<<10, 14, 20>>), Emitter(<<6, 2, 3>>), Emitter(<<30, 20, 6>>),
     Surface(<<12, 12, 12>>, One, 0, FALSE, FALSE, 10, 20),
     Surface(<<12, 12, 12>>, 0, One, TRUE, FALSE, 10, 20),
     Surface(<<12, 12, 12>>, 0, 0, FALSE, TRUE, 10, 20)}

\* ------------------------------------------------------------ Scene::intersect
\* Option<Intersection>: None, or Some of a hit distance t and the primitive
\* hit, named by its position in scan order (cubes first, then meshes).
None == <<>>
Some(t, k) == <<t, k>>

\* scene.intersect has not been called yet.
NotCalled == <<0>>

\* What one primitive can report for a ray: no hit, or a hit at distance t.
Reports == {0} \cup (1 .. MaxPrims)

\* scene.rs:467  f32::INFINITY, above every hit distance.
INFINITY == MaxPrims + 1

\* scene.rs:469-476 / 479-486: one loop over a list of primitives; base is
\* the number of primitives scanned before this list.
\* Faulty variant: a hit at an equal distance replaces the one kept.
RECURSIVE ScanKeepLast(_, _, _, _)
ScanKeepLast(list, i, base, acc) ==
    IF i > Len(list) THEN acc
    ELSE ScanKeepLast(list, i + 1, base,
                      IF list[i] # 0 /\ list[i] <= acc.closest_t
                        THEN [closest |-> Some(list[i], base + i), closest_t |-> list[i]]
                        ELSE acc)
RECURSIVE Scan(_, _, _, _)
Scan(list, i, base, acc) ==
    IF i > Len(list) THEN acc
    ELSE Scan(list, i + 1, base,
              IF list[i] # 0 /\ list[i] < acc.closest_t
                THEN [closest |-> Some(list[i], base + i), closest_t |-> list[i]]
                ELSE acc)

\* scene.rs:465-490
intersect(cs, ms) ==
    Scan(ms, 1, Len(cs),
         Scan(cs, 1, 0, [closest |-> None, closest_t |-> INFINITY])).closest

\* The ray of a listed scene as trace_ray sees it: the sky on a miss, a matte
\* surface when the primitive kept is a cube, an emitter when it is a mesh.
RayOf(f, sky) ==
    IF f = None THEN Miss(sky)
    ELSE IF f[2] <= Len(cubes)
      THEN Surface(<<12, 12, 12>>, 0, 0, FALSE, FALSE, 10, 20)
      ELSE Emitter(<<6, 2, 3>>)

\* The outcomes the scene can have for a ray traced at depth d.
Rays(d) ==
    IF scene = "basic" THEN BasicRays
    ELSE IF scene = "shaded" THEN (IF d = 0 THEN ShadedRays ELSE DeepRays)
    ELSE IF found = NotCalled THEN {}
    ELSE {RayOf(found, sky) : sky \in {<<10, 14, 20>>, <<4, 4, 8>>}}

\* One activation record of trace_ray: its depth argument, what the scene
\* holds for its ray, where it is ("enter": at renderer.rs:130; "reflect":
\* waiting in the call of line 170; "refract": waiting in the call of line
\* 179), and its local variable color.
Frame(d, h) == [depth |-> d, pc |-> "enter", hit |-> h, color |-> Black]

Top == stack[Len(stack)]
Pop == SubSeq(stack, 1, Len(stack) - 1)
Retop(f) == [stack EXCEPT ![Len(stack)] = f]

\* renderer.rs:130
\* Faulty variant: the ceiling test lets depth = MAX_DEPTH through.
AtCeilingOffByOne(d) == d > MAX_DEPTH
AtCeiling(d) == d >= MAX_DEPTH

\* renderer.rs:170 / 179: the depth handed to a recursive call.
ChildDepth(d) == d + 1

\* skybox.rs:34-157: the sky's colour along the ray, clamped at the end.
SkySample(h) == clamp(h.sky_base)

\* renderer.rs:143
IsEmissive(h) == h.emissive[1] > 0 \/ h.emissive[2] > 0 \/ h.emissive[3] > 0

\* renderer.rs:151-162
\* Faulty variant: the shadow test is ignored.
DiffuseUnshadowed(h) ==
    CScale(h.sun_color, (Max(h.ndotl, 0) * h.sun_intensity) \div One)
Diffuse(h) ==
    IF h.in_shadow THEN Black
    ELSE CScale(h.sun_color, (Max(h.ndotl, 0) * h.sun_intensity) \div One)

\* renderer.rs:164
Local(h) == CMul(CAdd(ambient, Diffuse(h)), h.surface)

\* renderer.rs:171 / 180
\* Faulty variant: the traced colour replaces the colour so far.
BlendReplace(c, traced, k) == traced
Blend(c, traced, k) == CAdd(CScale(c, One - k), CScale(traced, k))

\* renderer.rs:43 / 98: the renderer's call trace_ray(&ray, scene, 0).
TraceCall ==
    /\ UNCHANGED <<render_vars, lib_vars>>
    /\ stack = <<>>
    /\ ret = "none"
    /\ \E h \in Rays(0) : stack' = <<Frame(0, h)>>
    /\ UNCHANGED <<ret, color, queries, scene>>

\* renderer.rs:130-132
DepthCeiling ==
    /\ UNCHANGED <<render_vars, lib_vars>>
    /\ stack # <<>>
    /\ Top.pc = "enter"
    /\ AtCeiling(Top.depth)
    /\ stack' = Pop
    /\ ret' = "black"
    /\ color' = Black
    /\ queries' = 0
    /\ UNCHANGED scene

\* renderer.rs:134, 185-188: scene.intersect finds nothing.
\* Faulty variant: a miss is answered with black.
SkyMissBlack ==
    /\ UNCHANGED <<render_vars, lib_vars>>
    /\ stack # <<>>
    /\ Top.pc = "enter"
    /\ ~AtCeiling(Top.depth)
    /\ ~Top.hit.hit
    /\ stack' = Pop
    /\ ret' = "sky"
    /\ color' = Black
    /\ queries' = 1
    /\ UNCHANGED scene
SkyMiss ==
    /\ UNCHANGED <<render_vars, lib_vars>>
    /\ stack # <<>>
    /\ Top.pc = "enter"
    /\ ~AtCeiling(Top.depth)
    /\ ~Top.hit.hit
    /\ stack' = Pop
    /\ ret' = "sky"
    /\ color' = SkySample(Top.hit)
    /\ queries' = 1
    /\ UNCHANGED scene

\* renderer.rs:134-145: the nearest hit is on an emissive material.
\* Faulty variant: the emissive test comes after the lighting.
EmissiveHitLate ==
    /\ UNCHANGED <<render_vars, lib_vars>>
    /\ stack # <<>>
    /\ Top.pc = "enter"
    /\ ~AtCeiling(Top.depth)
    /\ Top.hit.hit
    /\ IsEmissive(Top.hit)
    /\ stack' = Pop
    /\ ret' = "emissive"
    /\ color' = Top.hit.emissive
    /\ queries' = 2
    /\ UNCHANGED scene
EmissiveHit ==
    /\ UNCHANGED <<render_vars, lib_vars>>
    /\ stack # <<>>
    /\ Top.pc = "enter"
    /\ ~AtCeiling(Top.depth)
    /\ Top.hit.hit
    /\ IsEmissive(Top.hit)
    /\ stack' = Pop
    /\ ret' = "emissive"
    /\ color' = Top.hit.emissive
    /\ queries' = 1
    /\ UNCHANGED scene

\* The activation on top calls trace_ray for a ray of its own and waits at
\* `at` with its colour so far.
Recurse(at, c) ==
    /\ \E h \in Rays(ChildDepth(Top.depth)) :
         stack' = Append(Retop([Top EXCEPT !.pc = at, !.color = c]),
                         Frame(ChildDepth(Top.depth), h))
    /\ UNCHANGED <<ret, color, queries>>

\* renderer.rs:184: the activation on top returns its clamped colour, having
\* queried the scene for its own ray and for its shadow ray.
ReturnLit(c) ==
    /\ stack' = Pop
    /\ ret' = "lit"
    /\ color' = clamp(c)
    /\ queries' = 2

\* renderer.rs:175-177: the material is transparent and refract() gives a
\* direction.
\* Faulty variant: the missing direction is not looked at.
RefractingAlways(h) == h.transparency > 0
Refracting(h) == h.transparency > 0 /\ h.refracts

\* renderer.rs:147-184 up to the first recursive call, or to the return when
\* the material hit asks for none.
LitHit ==
    /\ UNCHANGED <<render_vars, lib_vars>>
    /\ stack # <<>>
    /\ Top.pc = "enter"
    /\ ~AtCeiling(Top.depth)
    /\ Top.hit.hit
    /\ ~IsEmissive(Top.hit)
    /\ IF Top.hit.reflectivity > 0
         THEN Recurse("reflect", Local(Top.hit))
       ELSE IF Refracting(Top.hit)
         THEN Recurse("refract", Local(Top.hit))
       ELSE ReturnLit(Local(Top.hit))
    /\ UNCHANGED scene

\* renderer.rs:170-184: the reflection call has returned.
\* Faulty variant: a reflective material is not looked at for transparency.
AfterReflectOnly ==
    /\ UNCHANGED <<render_vars, lib_vars>>
    /\ stack # <<>>
    /\ Top.pc = "reflect"
    /\ ReturnLit(Blend(Top.color, color, Top.hit.reflectivity))
    /\ UNCHANGED scene
AfterReflect ==
    /\ UNCHANGED <<render_vars, lib_vars>>
    /\ stack # <<>>
    /\ Top.pc = "reflect"
    /\ LET blended == Blend(Top.color, color, Top.hit.reflectivity)
       IN  IF Refracting(Top.hit)
             THEN Recurse("refract", blended)
             ELSE ReturnLit(blended)
    /\ UNCHANGED scene

\* renderer.rs:179-184: the refraction call has returned.
AfterRefract ==
    /\ UNCHANGED <<render_vars, lib_vars>>
    /\ stack # <<>>
    /\ Top.pc = "refract"
    /\ ReturnLit(Blend(Top.color, color, Top.hit.transparency))
    /\ UNCHANGED scene

\* No call of render_scene is under way.
IdleFrame ==
    /\ width = 0 /\ height = 0
    /\ initial = <<>> /\ buffer = <<>> /\ first_buffer = <<>>
    /\ pc = "idle"
    /\ sy = 0 /\ sx = 0
    /\ thread_id = 0
    /\ handles = <<>>
    /\ worker = [t \in Threads |-> NoWorker]
    /\ joined = {}
    /\ mutex = "free"
    /\ oob_write = FALSE
    /\ result = "none"
    /\ call = 1

\* The renderer is not running while trace_ray is looked at on its own.
IdleRenderer == use_threading = FALSE /\ IdleFrame

IdleRender == render_scale = 1 /\ IdleRenderer

InitTrace == IdleRender /\ IdleTrace /\ IdleLib

NextTrace ==
    \/ TraceCall \/ DepthCeiling \/ SkyMiss \/ EmissiveHit
    \/ LitHit \/ AfterReflect \/ AfterRefract

SpecTrace == InitTrace /\ [][NextTrace]_vars

\* scene.rs:465-490: the call scene.intersect(ray) for the primary ray of a
\* scene given by what each of its primitives reports for that ray.
SceneIntersect ==
    /\ scene = "listed"
    /\ found = NotCalled
    /\ found' = intersect(cubes, meshes)
    /\ UNCHANGED <<render_vars, trace_vars, cubes, meshes, main_vars, cube_vars,
                   tri_vars, sky_vars>>

ReportLists == UNION {[1 .. n -> Reports] : n \in 0 .. MaxPrims}

InitIntersect ==
    /\ IdleRender
    /\ stack = <<>> /\ ret = "none"
    /\ color = Black /\ queries = 0
    /\ scene = "listed"
    /\ cubes \in ReportLists
    /\ meshes \in ReportLists
    /\ found = NotCalled
    /\ InitController
    /\ IdleTriangle
    /\ IdleSky
    /\ IdleCube

\* The primary ray of a scene of matte cubes and emissive meshes.
NextIntersect ==
    \/ SceneIntersect \/ TraceCall \/ SkyMiss \/ EmissiveHit \/ LitHit

SpecIntersect == InitIntersect /\ [][NextIntersect]_vars

\* ------------------------------------------------------- main: quality control
\* Times are in tenths of a second.
FPS_CHECK_INTERVAL == 5
LOW_FPS_THRESHOLD  == 20
HIGH_FPS_THRESHOLD == 45

\* main.rs:60 fps_history is cut back to this many samples.
HistoryLen == 10
\* main.rs:102 a check needs this many samples.
MinSamples == 5

\* The keys main looks at for the quality controller.
Keys == {"ONE", "TWO", "THREE", "P"}

\* main.rs:88 day_time advances by 0.01 and wraps at 1.0.
DaySteps == 100

\* renderer.rs:187 the day_time trace_ray hands to Skybox::sample, in
\* hundredths.
SkySampleTime == 0

\* rl.get_frame_time() and rl.get_fps() of one frame.
FrameTimes == {1, 3}
FpsSamples == {10, 60}

RECURSIVE Sum(_)
Sum(h) == IF h = <<>> THEN 0 ELSE Head(h) + Sum(Tail(h))

\* main.rs:96-99
Push(h, fps) == IF Len(h) + 1 > HistoryLen THEN Tail(Append(h, fps)) ELSE Append(h, fps)

\* main.rs:125-129
\* Faulty variant: the scale is computed from the level.
ScaleOfLinear(q) == 4 - 2 * q
ScaleOf(q) == IF q = 0 THEN 4 ELSE IF q = 1 THEN 2 ELSE 1

\* main.rs:108-119: the level the check moves to from level q.
\* Faulty variant: the check goes straight to the lowest quality, or back to
\* the user's level.
AdjustJump(q, manual, avg) ==
    IF avg < LOW_FPS_THRESHOLD /\ q < 2 THEN 2
    ELSE IF avg > HIGH_FPS_THRESHOLD /\ q > 0
      THEN (IF q > manual THEN manual ELSE q)
    ELSE q
Adjust(q, manual, avg) ==
    IF avg < LOW_FPS_THRESHOLD /\ q < 2 THEN q + 1
    ELSE IF avg > HIGH_FPS_THRESHOLD /\ q > 0
      THEN (IF q > manual THEN q - 1 ELSE q)
    ELSE q

\* main.rs:57-140: one iteration of the main loop with the user at the keys
\* K: keys 1, 2, 3 and P, T and N, the FPS history, the check, and the
\* render_scale and use_threading handed to render_scene, whose trace_ray
\* samples the sky for the rays that miss.
MainLoopWith(K) ==
    \E keys \in SUBSET K, delta_time \in FrameTimes, current_fps \in FpsSamples :
      LET manual == IF "THREE" \in keys THEN 2
                    ELSE IF "TWO" \in keys THEN 1
                    ELSE IF "ONE" \in keys THEN 0
                    ELSE manual_quality_level
          keyed  == IF auto_quality \/ keys \cap {"ONE", "TWO", "THREE"} = {}
                      THEN quality_level ELSE manual
          auto   == IF "P" \in keys THEN ~auto_quality ELSE auto_quality
          level  == IF "P" \in keys /\ ~auto THEN manual ELSE keyed
          timer  == fps_check_timer + delta_time
          hist   == Push(fps_history, current_fps)
          check  == timer >= FPS_CHECK_INTERVAL /\ Len(hist) >= MinSamples
          avg    == Sum(hist) \div Len(hist)
      IN  /\ manual_quality_level' = manual
          /\ auto_quality' = auto
          /\ IF auto
                THEN /\ fps_history' = hist
                     /\ fps_check_timer' = IF check THEN 0 ELSE timer
                     /\ avg_fps' = IF check THEN avg ELSE -1
                     /\ quality_level' = IF check THEN Adjust(level, manual, avg) ELSE level
                ELSE /\ UNCHANGED <<fps_history, fps_check_timer>>
                     /\ avg_fps' = -1
                     /\ quality_level' = level
          /\ use_threading' = IF "T" \in keys THEN ~use_threading ELSE use_threading
          /\ day_time' = IF "N" \in keys THEN (day_time + 1) % DaySteps ELSE day_time
          /\ render_scale' = ScaleOf(quality_level')
          /\ sample_time' = SkySampleTime
          /\ UNCHANGED <<trace_vars, isect_vars, cube_vars, tri_vars, sky_vars, width, height, initial,
                         buffer, pc, sy, sx, thread_id, handles, worker, joined, mutex,
                         oob_write, result, call, first_buffer>>

\* The user at the quality keys.
MainLoop == MainLoopWith(Keys)

\* The user at the threading and time-of-day keys.
DayLoop == MainLoopWith({"T", "N"})

InitMain ==
    /\ use_threading = TRUE
    /\ IdleFrame
    /\ IdleTrace
    /\ cubes = <<>> /\ meshes = <<>> /\ found = <<0>>
    /\ InitController
    /\ IdleTriangle
    /\ IdleSky
    /\ IdleCube
    /\ render_scale = ScaleOf(quality_level)

SpecMain == InitMain /\ [][MainLoop]_vars

SpecDay == InitMain /\ [][DayLoop]_vars

\* ----------------------------------------------------------- Cube::ray_intersect
\* Lengths are in halves of a unit, so that the unit box has corners at -1
\* and 1. f32 values are the integers, the two infinities and NaN.
Inf == 1000
NaN == 2000

\* f32 comparison: false when an operand is NaN.
FLt(a, b) == a # NaN /\ b # NaN /\ a < b

\* f32::min and f32::max: the other operand when one is NaN.
FMin(a, b) == IF a = NaN THEN b ELSE IF b = NaN THEN a ELSE IF a < b THEN a ELSE b
FMax(a, b) == IF a = NaN THEN b ELSE IF b = NaN THEN a ELSE IF a > b THEN a ELSE b

\* cube.rs:67-71: 1.0 / d for the directions of the model (-1, 0, 1), with
\* f32::INFINITY for a zero component.
InvDir(d) == IF d # 0 THEN d ELSE Inf

\* cube.rs:73-78: (bound - origin) * inv_dir in f32: a non-zero difference
\* times infinity is an infinity of its sign, zero times infinity is NaN.
SlabT(bound, origin, inv) ==
    IF inv = Inf
      THEN (IF bound - origin > 0 THEN Inf
            ELSE IF bound - origin < 0 THEN -Inf ELSE NaN)
      ELSE (bound - origin) * inv

\* cube.rs:80
tmin(c, r) ==
    LET t(b, i) == SlabT(b[i], r.origin[i], InvDir(r.direction[i]))
    IN  FMax(FMax(FMin(t(c.min, 1), t(c.max, 1)), FMin(t(c.min, 2), t(c.max, 2))),
             FMin(t(c.min, 3), t(c.max, 3)))

\* cube.rs:81
tmax(c, r) ==
    LET t(b, i) == SlabT(b[i], r.origin[i], InvDir(r.direction[i]))
    IN  FMin(FMin(FMax(t(c.min, 1), t(c.max, 1)), FMax(t(c.min, 2), t(c.max, 2))),
             FMax(t(c.min, 3), t(c.max, 3)))

\* cube.rs:87
\* Faulty variant: the entry distance is taken even when it is behind the origin.
DistanceEntry(lo, hi) == lo
Distance(lo, hi) == IF FLt(lo, 0) THEN hi ELSE lo

\* cube.rs:66-94
ray_intersect(c, r) ==
    IF FLt(tmax(c, r), 0) \/ FLt(tmax(c, r), tmin(c, r))
      THEN [is_intersecting |-> FALSE, distance |-> 0]
    ELSE IF FLt(Distance(tmin(c, r), tmax(c, r)), 0)
      THEN [is_intersecting |-> FALSE, distance |-> 0]
    ELSE [is_intersecting |-> TRUE, distance |-> Distance(tmin(c, r), tmax(c, r))]

\* The unit box centred at the origin and a box of unequal sides off centre.
Cubes == {[min |-> <<-1, -1, -1>>, max |-> <<1, 1, 1>>],
          [min |-> <<0, -2, -1>>, max |-> <<1, 2, 2>>]}

\* Rays from the points of a grid around the boxes and from (0, 0, 5), along
\* the axes and the diagonals.
CubeRays ==
    {r \in [origin : {-2, -1, 0, 1, 10} \X {-2, -1, 0, 1, 10} \X {-2, -1, 0, 1, 10},
            direction : {-1, 0, 1} \X {-1, 0, 1} \X {-1, 0, 1}] :
       r.direction # <<0, 0, 0>>}

\* The call cube.ray_intersect(&ray.origin, &ray.direction).
RayIntersect ==
    /\ hit = NoIntersect
    /\ hit' = ray_intersect(cube, ray)
    /\ UNCHANGED <<render_vars, trace_vars, isect_vars, main_vars, cube, ray,
                   hit_point, normal, tri_vars, sky_vars>>

InitCube ==
    /\ IdleRender
    /\ IdleTrace
    /\ cubes = <<>> /\ meshes = <<>> /\ found = <<0>>
    /\ InitController
    /\ IdleTriangle
    /\ IdleSky
    /\ cube \in Cubes
    /\ ray \in CubeRays
    /\ hit = NoIntersect
    /\ hit_point = <<0, 0, 0>>
    /\ normal = <<0, 0, 0>>

SpecCube == InitCube /\ [][RayIntersect]_vars

\* ---------------------------------------------------------- Triangle::intersect
Abs(x) == IF x < 0 THEN -x ELSE x

\* Vec3: difference, dot product and cross product.
Sub(a, b)   == [i \in 1 .. 3 |-> a[i] - b[i]]
Dot(a, b)   == a[1] * b[1] + a[2] * b[2] + a[3] * b[3]
Cross(a, b) == <<a[2] * b[3] - a[3] * b[2],
                 a[3] * b[1] - a[1] * b[3],
                 a[1] * b[2] - a[2] * b[1]>>

\* obj_loader.rs:50: t > 0.001 for t = f * edge2.dot(&q) = tn / a.
\* Faulty variant: every t from zero on is accepted.
BeyondZero(tn, a) == tn * a >= 0
BeyondEpsilon(tn, a) == 1000 * tn * a > a * a

\* obj_loader.rs:23-55, with vertices and rays on the integer grid: a, and
\* u, v and t times a, are integers; |a| < 0.00001 is a = 0; u < 0 is
\* un * a < 0 and u > 1 is un * a > a * a. Some(t) is kept as the fraction
\* t in lowest terms.
TriangleIntersect(tr, r) ==
    LET edge1 == Sub(tr[2], tr[1])
        edge2 == Sub(tr[3], tr[1])
        h  == Cross(r.direction, edge2)
        a  == Dot(edge1, h)
        sv == Sub(r.origin, tr[1])
        un == Dot(sv, h)
        q  == Cross(sv, edge1)
        vn == Dot(r.direction, q)
        tn == Dot(edge2, q)
    IN  IF a = 0 THEN None
        ELSE IF un * a < 0 \/ un * a > a * a THEN None
        ELSE IF vn * a < 0 \/ (un + vn) * a > a * a THEN None
        ELSE IF BeyondEpsilon(tn, a) THEN Frac(Abs(tn), Abs(a))
        ELSE None

\* A triangle in the plane z = 0, a face of the pyramid of load_obj (in half
\* units), and three triangles of zero area: collinear vertices, two equal
\* vertices, three equal vertices.
Triangles ==
    {<<<<-1, -1, 0>>, <<2, -1, 0>>, <<-1, 2, 0>>>>,
     <<<<-1, 0, -1>>, <<1, 0, -1>>, <<0, 2, 0>>>>,
     <<<<0, 0, 0>>, <<1, 1, 0>>, <<2, 2, 0>>>>,
     <<<<0, 0, 0>>, <<0, 0, 0>>, <<1, 0, 0>>>>,
     <<<<1, 1, 1>>, <<1, 1, 1>>, <<1, 1, 1>>>>}

\* Rays from a grid of origins in every direction of the grid, the zero
\* vector included.
TriangleRays ==
    [origin : (-1 .. 2) \X (-1 .. 2) \X (-1 .. 2),
     direction : {-1, 0, 1} \X {-1, 0, 1} \X {-1, 0, 1}]

\* The call triangle.intersect(&ray).
TriangleHit ==
    /\ tri_t = NotCalled
    /\ tri_t' = TriangleIntersect(triangle, ray)
    /\ UNCHANGED <<render_vars, trace_vars, isect_vars, main_vars, cube, hit,
                   hit_point, normal, ray, triangle, sky_vars>>

InitTriangle ==
    /\ IdleRender
    /\ IdleTrace
    /\ cubes = <<>> /\ meshes = <<>> /\ found = <<0>>
    /\ InitController
    /\ IdleSky
    /\ cube = [min |-> <<0, 0, 0>>, max |-> <<0, 0, 0>>]
    /\ hit = NoIntersect
    /\ hit_point = <<0, 0, 0>>
    /\ normal = <<0, 0, 0>>
    /\ triangle \in Triangles
    /\ ray \in TriangleRays
    /\ tri_t = NotCalled

SpecTriangle == InitTriangle /\ [][TriangleHit]_vars

\* --------------------------------------------------------------- Skybox::sample
\* Sky colours are in 1/2000, day_time in hundredths, cosines in 1/10000.
SkyOne == 100 * One

\* skybox.rs:112-113, 135-136: cos 15, cos 30, cos 8 and cos 12 degrees
\* (0.96593, 0.86603, 0.99027, 0.97815), cut to the grid of cosines: no
\* threshold is a grid point, so cos >= threshold is cos > cut threshold.
sun_radius_cos  == 9659
sun_glow_cos    == 8660
moon_radius_cos == 9902
moon_glow_cos   == 9781

\* skybox.rs:116: the sun is drawn.
\* Faulty variant: it is drawn at every time of day.
SunAlways(d) == TRUE
SunUp(d) == d < 50

\* skybox.rs:139: the moon is drawn.
MoonUp(d) == d > 50

\* skybox.rs:118-131, 141-154: what a body with the given core and glow
\* thresholds adds for a ray at cosine c to it: its disk colour times
\* disk_gain * brightness in the core, else its glow colour times
\* glow_gain * brightness in the glow band, with brightness = shape * fade
\* for shape = t.powf(..) in halves and fade in hundredths.
BodyLight(c, radius, glow, disk, disk_gain, halo, halo_gain, shape, fade) ==
    IF c > radius
      THEN [i \in 1 .. 3 |-> (disk[i] * disk_gain * shape * fade) \div 200]
    ELSE IF c > glow
      THEN [i \in 1 .. 3 |-> (halo[i] * halo_gain * shape * fade) \div 200]
    ELSE Black

\* skybox.rs:103-157: from the base colour on. a.cos is
\* cos_angle_to_sun; the moon is opposite to the sun.
sample(a) ==
    LET cos_angle_to_sun  == a.cos
        cos_angle_to_moon == -a.cos
        sun  == IF SunUp(a.day_time)
                  THEN BodyLight(cos_angle_to_sun, sun_radius_cos, sun_glow_cos,
                                 <<2000, 2000, 1900>>, 5, <<2000, 1800, 1400>>, 2,
                                 a.shape, 100 - a.day_time * 2)
                  ELSE Black
        moon == IF MoonUp(a.day_time)
                  THEN BodyLight(cos_angle_to_moon, moon_radius_cos, moon_glow_cos,
                                 <<1800, 1800, 2000>>, 3, <<1400, 1400, 1800>>, 1,
                                 a.shape, (a.day_time - 50) * 2)
                  ELSE Black
        sum  == CAdd(CAdd(a.base, sun), moon)
    IN  [sun |-> sun, moon |-> moon,
         color |-> [i \in 1 .. 3 |-> Max(0, IF sum[i] > SkyOne THEN SkyOne ELSE sum[i])]]

\* Times of day below, at and above 0.5; rays towards the sun,
\* in its glow, away from both bodies, in the moon's glow and towards the
\* moon; the power curve at 0, 0.5 and 1; a dark and a bright base colour.
SkyArgs ==
    [day_time : {0, 25, 49, 50, 51, 75, 99},
     cos : {-10000, -9850, -9000, 0, 8000, 9000, 9659, 9700, 10000},
     shape : {0, 1, 2},
     base : {<<200, 400, 800>>, <<1800, 1800, 1900>>}]

\* The call skybox.sample(ray, day_time, sun_dir, sun_color, sun_intensity).
Sample ==
    /\ sky_out = <<>>
    /\ sky_out' = sample(sky_args)
    /\ UNCHANGED <<render_vars, trace_vars, isect_vars, main_vars, cube_vars,
                   tri_vars, sky_args>>

InitSky ==
    /\ IdleRender
    /\ IdleTrace
    /\ cubes = <<>> /\ meshes = <<>> /\ found = <<0>>
    /\ InitController
    /\ IdleCube
    /\ IdleTriangle
    /\ sky_args \in SkyArgs
    /\ sky_out = <<>>

SpecSky == InitSky /\ [][Sample]_vars

\* ------------------------------------------------------------- Cube::get_normal
\* f32::signum: 1.0 for +0.0 and above, -1.0 below.
\* Faulty variant: the sign is dropped.
SignumPlus(x) == 1
Signum(x) == IF x >= 0 THEN 1 ELSE -1

\* cube.rs:39-41, doubled to stay in the integers: 2 * p = 2 * hit_point -
\* (min + max) and 2 * d = max - min.
P2(c, h) == [i \in 1 .. 3 |-> 2 * h[i] - (c.min[i] + c.max[i])]
D2(c) == [i \in 1 .. 3 |-> c.max[i] - c.min[i]]

\* cube.rs:43-53: (p / d).abs() > 1.0001 on axis i.
OverBias(c, h, i) == Abs(P2(c, h)[i]) * 10000 > 10001 * D2(c)[i]

\* The vector with s on axis i and 0.0 elsewhere.
AxisVector(i, s) == [j \in 1 .. 3 |-> IF j = i THEN s ELSE 0]

\* cube.rs:55-61
\* Faulty variant: an axis wins with an offset as large as the others'.
LargestAxisFirst(p) ==
    IF Abs(p[1]) >= Abs(p[2]) /\ Abs(p[1]) >= Abs(p[3]) THEN 1
    ELSE IF Abs(p[2]) >= Abs(p[3]) THEN 2
    ELSE 3
LargestAxis(p) ==
    IF Abs(p[1]) > Abs(p[2]) /\ Abs(p[1]) > Abs(p[3]) THEN 1
    ELSE IF Abs(p[2]) > Abs(p[3]) THEN 2
    ELSE 3

\* cube.rs:38-62
get_normal(c, h) ==
    LET p == P2(c, h)
        axis == IF OverBias(c, h, 1) THEN 1
                ELSE IF OverBias(c, h, 2) THEN 2
                ELSE IF OverBias(c, h, 3) THEN 3
                ELSE LargestAxis(p)
    IN  AxisVector(axis, Signum(p[axis]))

\* A cube of side 2 centred at the origin (Cube::new) and a box of sides
\* 1, 3 and 2 off centre (Cube::new_with_dimensions), in half units.
Boxes == {[min |-> <<-2, -2, -2>>, max |-> <<2, 2, 2>>],
          [min |-> <<0, -3, -2>>, max |-> <<2, 3, 2>>]}

\* Points on, in and around the boxes.
HitPoints == (-3 .. 3) \X (-3 .. 3) \X (-3 .. 3)

\* The call cube.get_normal(&hit_point).
GetNormal ==
    /\ normal = <<0, 0, 0>>
    /\ normal' = get_normal(cube, hit_point)
    /\ UNCHANGED <<render_vars, trace_vars, isect_vars, main_vars, cube, ray, hit,
                   hit_point, tri_vars, sky_vars>>

InitNormal ==
    /\ IdleRender
    /\ IdleTrace
    /\ cubes = <<>> /\ meshes = <<>> /\ found = <<0>>
    /\ InitController
    /\ IdleTriangle
    /\ IdleSky
    /\ cube \in Boxes
    /\ ray = [origin |-> <<0, 0, 0>>, direction |-> <<0, 0, 0>>]
    /\ hit = NoIntersect
    /\ hit_point \in HitPoints
    /\ normal = <<0, 0, 0>>

SpecNormal == InitNormal /\ [][GetNormal]_vars

\* trace_ray on scenes whose primary ray meets the shaded materials.
InitShade ==
    /\ IdleRender
    /\ stack = <<>> /\ ret = "none"
    /\ color = Black /\ queries = 0
    /\ scene = "shaded"
    /\ IdleLib

SpecShade == InitShade /\ [][NextTrace]_vars

\* trace_ray runs on one thread, which keeps executing.
FairSpecTrace == SpecTrace /\ WF_vars(NextTrace)

\* ------------------------------------------------------------ properties
Band(t) == {r \in 0 .. (ScaledHeight - 1) :
              worker[t].start_row <= r /\ r < worker[t].end_row}

PixelIdxs(t) == {worker[t].local_pixels[i][1] : i \in 1 .. Len(worker[t].local_pixels)}

\* The pixels of the image that the logical rows of worker t's band stand for.
BandPixels(t) ==
    {y * width + x : x \in 0 .. (ScaledWidth * render_scale - 1),
                     y \in {r * render_scale + dy : r \in Band(t),
                                                    dy \in 0 .. (render_scale - 1)}}

\* The colour the logical sample covering pixel idx is given.
ExpectedAt(idx) ==
    SampleColor((idx % width) \div render_scale, (idx \div width) \div render_scale)

AllSpawned == use_threading /\ pc \in {"join", "merge", "returned"}

InThreadedCall == use_threading /\ pc \in {"spawn", "join", "merge"}

\* C1: for the same scene, camera, size, scale and initial buffer, when both
\* calls have returned and no worker failed, the buffer left by the second
\* call (the other value of use_threading) equals, pixel for pixel, the
\* buffer left by the first.
C1_ThreadedEqualsSingle ==
    (call = 2 /\ pc = "returned" /\ ~AnyPanicked) => buffer = first_buffer

C1_Witness ==
    /\ call = 2 /\ pc = "returned" /\ ~AnyPanicked
    /\ use_threading
    /\ buffer # initial
    /\ \A t \in Threads : worker[t].local_pixels # <<>>

\* C2: once the four workers are spawned their row ranges are pairwise
\* disjoint, in increasing order without gaps, and cover exactly the logical
\* rows 0 .. scaled_height - 1; no pixel index is in the result lists of two
\* workers or twice in one; when all workers completed every pixel of the
\* covered area is in exactly one list; and the merged buffer is the one
\* that copying the lists in the opposite order gives.
C2_BandsPartitionRows ==
    /\ AllSpawned =>
         /\ \A a, b \in Threads : a # b => Band(a) \cap Band(b) = {}
         /\ \A a, b \in Threads : a < b =>
              \A ra \in Band(a), rb \in Band(b) : ra < rb
         /\ UNION {Band(t) : t \in Threads} = 0 .. (ScaledHeight - 1)
    /\ \A a, b \in Threads : a # b => PixelIdxs(a) \cap PixelIdxs(b) = {}
    /\ \A t \in Threads : Cardinality(PixelIdxs(t)) = Len(worker[t].local_pixels)
    /\ (use_threading /\ pc = "returned" /\ ~AnyPanicked) =>
         /\ \A t \in Threads : PixelIdxs(t) = BandPixels(t)
         /\ buffer = ApplyPixels(initial,
                        worker[3].local_pixels \o worker[2].local_pixels
                        \o worker[1].local_pixels \o worker[0].local_pixels)

C2_Witness ==
    /\ use_threading /\ pc = "returned" /\ ~AnyPanicked
    /\ \A t \in Threads : Band(t) # {}
    /\ width >= 2

\* C3 (as claimed): in threaded mode no pixel of the current frame is in the
\* shared buffer while some worker is still running.
C3_MergeAfterAllWorkers ==
    (use_threading /\ buffer # initial) =>
        \A t \in Threads : worker[t].status # "running"

\* C3 (amended): in threaded mode a pixel of the current frame is in the
\* shared buffer only if the worker that computed it has completed and has
\* been joined; handles are joined in spawn order, and the copy of a worker's
\* results is made only for a worker that has completed.
C3_MergeAfterOwnJoin ==
    use_threading =>
        /\ \A i \in DOMAIN buffer : buffer[i] # initial[i] =>
             \E t \in joined : worker[t].status = "finished" /\ i \in PixelIdxs(t)
        /\ \A t \in joined : \A s \in Threads : s < t => s \in joined
        /\ \A t \in joined : worker[t].status \in {"finished", "panicked"}
        /\ pc = "merge" => worker[Head(handles)].status = "finished"

C3_Witness ==
    /\ use_threading
    /\ buffer # initial
    /\ \E t \in Threads : worker[t].status = "running"

\* C4: during a threaded call every step that changes the shared buffer is
\* the merge step of the calling thread, holding the mutex, and changes no
\* worker (so no worker step writes the buffer); the mutex is held only by
\* the calling thread while it merges, and it is free whenever the calling
\* thread comes to lock it.
C4_OnlySchedulerWrites ==
    /\ [][(InThreadedCall /\ buffer' # buffer) =>
            (pc = "merge" /\ mutex = "main" /\ worker' = worker)]_vars
    /\ [](mutex # "free" => (mutex = "main" /\ pc = "merge"))
    /\ []((use_threading /\ pc = "join") => mutex = "free")

C4_Witness ==
    /\ use_threading /\ pc = "merge" /\ mutex = "main"
    /\ worker[Head(handles)].local_pixels # <<>>
    /\ \E t \in Threads : worker[t].status = "running"
                          /\ worker[t].local_pixels # <<>>

\* C5: in threaded mode the pixels of the band of a worker that failed hold
\* their content from before the call, at every moment of the call and when
\* it returns (no partial write of that band), and when the call returns the
\* pixels of the band of every worker that completed hold the colour of
\* their logical sample.
C5_FailedBandKeepsPrevious ==
    use_threading =>
        /\ \A t \in Threads : worker[t].status = "panicked" =>
             \A i \in BandPixels(t) : buffer[i] = initial[i]
        /\ pc = "returned" =>
             \A t \in Threads : worker[t].status = "finished" =>
                 \A i \in BandPixels(t) : buffer[i] = ExpectedAt(i)

C5_Witness ==
    /\ use_threading /\ pc = "returned"
    /\ \E t \in Threads : worker[t].status = "panicked" /\ BandPixels(t) # {}
    /\ \E t \in Threads : worker[t].status = "finished" /\ BandPixels(t) # {}

\* C6 (as claimed): when some worker's join returned an error, render_scene
\* does not return normally: its caller gets an error.
C6_FailureSurfaced ==
    (use_threading /\ pc = "returned" /\ AnyPanicked) => result = "error"

\* C7 (as claimed): after a call that returned with no worker failed, every
\* pixel of every k x k block of the image has the colour that a render at
\* k = 1 gives to the block's top-left pixel.
C7_DownScale ==
    (pc = "returned" /\ ~AnyPanicked) =>
        \A x \in 0 .. (width - 1), y \in 0 .. (height - 1) :
            buffer[y * width + x] =
                ColorAt((x \div render_scale) * render_scale, width,
                        (y \div render_scale) * render_scale, height)

\* C8: no write of either path is out of bounds: no index outside
\* 0 .. width*height - 1 is ever written or pushed to a result list; and when
\* the call has returned with no worker failed, every pixel (x, y) with
\* x < width, y < height of the block of every logical sample holds that
\* sample's colour.
C8_WritesInBounds ==
    /\ ~oob_write
    /\ \A t \in Threads : \A idx \in PixelIdxs(t) : InBuffer(idx)
    /\ (pc = "returned" /\ ~AnyPanicked) =>
         \A a \in 0 .. (ScaledWidth - 1), b \in 0 .. (ScaledHeight - 1) :
           \A dx, dy \in 0 .. (render_scale - 1) :
             LET x == a * render_scale + dx
                 y == b * render_scale + dy
             IN  (x < width /\ y < height) =>
                    buffer[y * width + x] = SampleColor(a, b)

C8_Witness ==
    /\ pc = "returned" /\ ~AnyPanicked
    /\ render_scale = 2
    /\ height % render_scale # 0
    /\ buffer # initial

\* C9: trace_ray called with depth 0 returns; no activation has a depth
\* above MAX_DEPTH; an activation entered with depth = MAX_DEPTH returns
\* black in its next step, calling nothing.
C9_TraceRayBounded ==
    /\ [](\A i \in 1 .. Len(stack) : stack[i].depth <= MAX_DEPTH)
    /\ [][(stack # <<>> /\ Top.pc = "enter" /\ Top.depth = MAX_DEPTH) =>
            (stack' = Pop /\ ret' = "black")]_vars
    /\ <>(stack = <<>> /\ ret # "none")

C9_Witness ==
    /\ Len(stack) = MAX_DEPTH
    /\ ret = "black"
    /\ \A i \in 1 .. Len(stack) : stack[i].pc = "reflect"

\* C10: the workers are spawned inside the call (none exists before it); a
\* threaded call that has started returns; and when it has returned every
\* worker has ended and has been joined, and no handle is left.
C10_ForkJoin ==
    /\ []((pc = "idle") =>
            \A t \in Threads : worker[t].status = "unspawned")
    /\ []((use_threading /\ pc = "returned") =>
            /\ handles = <<>>
            /\ joined = Threads
            /\ \A t \in Threads : worker[t].status \in {"finished", "panicked"})
    /\ ((use_threading /\ pc = "spawn") ~> (use_threading /\ pc = "returned"))

C10_Witness ==
    /\ use_threading /\ pc = "returned"
    /\ joined = Threads
    /\ \E t \in Threads : worker[t].status = "panicked"
    /\ \E t \in Threads : Len(worker[t].local_pixels) > 1

\* An activation of trace_ray is about to test its depth, and the scene holds
\* no hit for its ray.
EntersMissing == stack # <<>> /\ Top.pc = "enter" /\ ~Top.hit.hit

\* C11 as stated: at every depth from 0 to the ceiling, an activation whose
\* ray misses the scene returns the sky sampler's result for that ray.
C11_SkyOnMissAnyDepth ==
    [][(EntersMissing /\ Top.depth \in 0 .. MAX_DEPTH) =>
          (stack' = Pop /\ color' = SkySample(Top.hit))]_vars

\* C11, amended: at every depth below the ceiling an activation whose ray
\* misses the scene returns the sky sampler's result for that ray after one
\* scene query; at the ceiling it returns black without querying the scene.
C11_SkyOnMissBelowCeiling ==
    [][EntersMissing =>
          IF Top.depth < MAX_DEPTH
            THEN stack' = Pop /\ ret' = "sky" /\ queries' = 1
                 /\ color' = SkySample(Top.hit)
            ELSE stack' = Pop /\ ret' = "black" /\ queries' = 0
                 /\ color' = Black]_vars

\* A ray traced at depth MAX_DEPTH - 1 has missed and the second sky came back.
C11_Witness ==
    /\ ret = "sky"
    /\ Len(stack) = MAX_DEPTH - 1
    /\ color = SkySample(Miss(<<4, 4, 8>>))
    /\ color # Black

\* What the primitives of the scene report for the ray, in scan order.
AllReports == cubes \o meshes

\* C12: Scene::intersect returns no hit exactly when no cube and no mesh
\* reports one; otherwise it returns a reported hit of minimum distance over
\* all cubes and meshes, and of those the one scanned first (cubes before
\* meshes); in a scene with no cubes and no meshes the ray misses and the
\* pixel trace_ray returns is the sky sampler's result.
C12_ClosestHit ==
    found # NotCalled =>
      /\ (found = None) <=> (\A i \in DOMAIN AllReports : AllReports[i] = 0)
      /\ found # None =>
            /\ found[2] \in DOMAIN AllReports
            /\ AllReports[found[2]] = found[1]
            /\ found[1] # 0
            /\ \A j \in DOMAIN AllReports :
                  AllReports[j] # 0 =>
                    /\ found[1] <= AllReports[j]
                    /\ (j < found[2] => found[1] < AllReports[j])
      /\ (cubes = <<>> /\ meshes = <<>>) =>
            /\ found = None
            /\ stack # <<>> => ~Top.hit.hit
            /\ ret # "none" => (ret = "sky" /\ \E h \in Rays(0) : color = SkySample(h))

\* The last cube and the first mesh report the same, smallest distance, after
\* a farther cube: the cube is kept and the pixel is that cube's.
C12_Witness ==
    /\ Len(cubes) = MaxPrims /\ Len(meshes) = MaxPrims
    /\ cubes[1] = MaxPrims
    /\ cubes[MaxPrims] = 1 /\ meshes[1] = 1
    /\ found = Some(1, MaxPrims)
    /\ ret = "lit"

\* An activation of trace_ray below the ceiling is about to query the scene,
\* which holds a hit on a non-emissive material for its ray.
EntersLit ==
    /\ stack # <<>> /\ Top.pc = "enter" /\ Top.depth < MAX_DEPTH
    /\ Top.hit.hit
    /\ Top.hit.emissive = Black

\* The colour an activation has before reflection and refraction: kept in
\* its record while it waits for a recursive call, returned clamped otherwise.
HasLocal(c) ==
    IF Len(stack') > Len(stack)
      THEN stack'[Len(stack)].color = c
      ELSE stack' = Pop /\ color' = clamp(c)

\* C13: for a non-emissive hit whose shadow ray is blocked, the diffuse term
\* is zero and the colour before reflection and refraction is ambient *
\* surface colour; when the shadow ray is free the diffuse term is
\* max(0, normal . light_dir) * sun colour * sun intensity.
C13_ShadowTest ==
    [][EntersLit =>
         IF Top.hit.in_shadow
           THEN HasLocal(CMul(ambient, Top.hit.surface))
           ELSE HasLocal(CMul(CAdd(ambient,
                                   CScale(Top.hit.sun_color,
                                          ((IF Top.hit.ndotl > 0 THEN Top.hit.ndotl ELSE 0)
                                             * Top.hit.sun_intensity) \div One)),
                              Top.hit.surface))]_vars

\* A reflective surface facing the sun with its shadow ray blocked waits
\* for its reflection with ambient light only.
C13_Witness ==
    /\ Len(stack) > 1
    /\ stack[1].pc = "reflect"
    /\ stack[1].hit.in_shadow
    /\ stack[1].hit.ndotl > 0 /\ stack[1].hit.sun_intensity > 0
    /\ stack[1].color = CMul(ambient, stack[1].hit.surface)

\* C14: below the ceiling, a nearest hit on a material whose emissive colour
\* has some channel above zero makes trace_ray return exactly that colour
\* after its one scene query: no shadow ray, no recursive call, no lighting.
C14_EmissiveShortCircuit ==
    [][(/\ stack # <<>> /\ Top.pc = "enter" /\ Top.depth < MAX_DEPTH
        /\ Top.hit.hit
        /\ \E i \in 1 .. 3 : Top.hit.emissive[i] > 0)
       => (/\ stack' = Pop
           /\ ret' = "emissive"
           /\ color' = Top.hit.emissive
           /\ queries' = 1)]_vars

\* The primary ray hit an emitter with a single weak channel.
C14_Witness ==
    /\ stack = <<>>
    /\ ret = "emissive"
    /\ color[1] = 0 /\ color[2] = 0 /\ color[3] > 0
    /\ queries = 1

\* The activation on top has its reflection call back.
ReflectionBack == stack # <<>> /\ Top.pc = "reflect"

\* local * (1 - r) + reflected * r for the activation on top, whose colour so
\* far is local and whose reflection call returned the colour in `color`.
ReflectionMix ==
    CAdd(CScale(Top.color, One - Top.hit.reflectivity),
         CScale(color, Top.hit.reflectivity))

TotalInternalReflection ==
    stack # <<>> /\ Top.hit.transparency > 0 /\ ~Top.hit.refracts

\* C16: when transparency > 0 and refract returns no direction, trace_ray
\* makes no refraction call and returns normally the colour computed so far
\* (local, or the reflection blend), clamped, untouched by the transparency
\* blend.
C16_TotalInternalReflection ==
    [][
        /\ (EntersLit /\ TotalInternalReflection /\ Top.hit.reflectivity = 0) =>
              (stack' = Pop /\ ret' = "lit" /\ color' = clamp(Local(Top.hit)))
        /\ (ReflectionBack /\ TotalInternalReflection) =>
              (stack' = Pop /\ ret' = "lit" /\ color' = clamp(ReflectionMix))
        /\ \A i \in DOMAIN stack' :
              stack'[i].pc = "refract" => stack'[i].hit.refracts
      ]_vars

\* A reflective, half transparent surface without a refracted direction has
\* its reflection call back.
C16_Witness ==
    /\ Len(stack) = 1
    /\ ReflectionBack
    /\ TotalInternalReflection
    /\ Top.hit.transparency < One
    /\ ret # "none"

\* C17: every colour trace_ray returns, on every return path and for every
\* material, emitters with channels above 1 included, has all its channels
\* within [0, 1].
C17_ReturnedColourInRange ==
    ret # "none" => \A i \in 1 .. 3 : 0 <= color[i] /\ color[i] <= One

\* C18: in auto-quality mode, a check that finds the average FPS below
\* LOW_FPS_THRESHOLD leaves the next frame's render_scale greater than or
\* equal to the previous frame's, and a check that finds it above
\* HIGH_FPS_THRESHOLD leaves render_scale less than or equal to it.
C18_QualityDirection ==
    [][/\ (avg_fps' >= 0 /\ avg_fps' < LOW_FPS_THRESHOLD) => render_scale' >= render_scale
       /\ avg_fps' > HIGH_FPS_THRESHOLD => render_scale' <= render_scale]_vars

\* C19 as stated: the first three of the four bands have the same number of
\* rows and the last band has at least as many rows as each of them.
C19_LastBandAbsorbsRemainder ==
    AllSpawned =>
      /\ \A a, b \in Threads \ {num_threads - 1} :
            Cardinality(Band(a)) = Cardinality(Band(b))
      /\ \A t \in Threads :
            Cardinality(Band(num_threads - 1)) >= Cardinality(Band(t))

\* C19, amended: with q the least number of rows such that four bands of q
\* rows cover scaled_height, no band has more than q rows and every band
\* followed by a non-empty band has exactly q rows: the remainder of the even
\* split goes to the first bands, the last non-empty band holds what is left
\* (at most q rows), and the bands after it are empty.
C19_FirstBandsFull ==
    AllSpawned =>
      \E q \in 0 .. ScaledHeight :
        /\ q * num_threads >= ScaledHeight
        /\ q > 0 => (q - 1) * num_threads < ScaledHeight
        /\ \A t \in Threads :
              /\ Cardinality(Band(t)) <= q
              /\ \A u \in Threads :
                    (t < u /\ Band(u) # {}) => Cardinality(Band(t)) = q

\* Five logical rows: bands of 2, 2, 1 and 0 rows.
C19_Witness ==
    /\ AllSpawned
    /\ ScaledHeight > num_threads
    /\ Cardinality(Band(0)) = Cardinality(Band(1))
    /\ Cardinality(Band(2)) < Cardinality(Band(1))
    /\ Band(2) # {}
    /\ Band(num_threads - 1) = {}

\* The distances at which the ray enters and leaves the slab of axis i. A
\* ray parallel to the slab is in it for ever when its origin is strictly
\* between the two planes, and otherwise never (both distances infinite, on
\* the side of the plane it is at or beyond).
Near(i) ==
    IF ray.direction[i] # 0
      THEN Min((cube.min[i] - ray.origin[i]) * ray.direction[i],
               (cube.max[i] - ray.origin[i]) * ray.direction[i])
    ELSE IF ray.origin[i] <= cube.min[i] THEN Inf ELSE -Inf
Far(i) ==
    IF ray.direction[i] # 0
      THEN Max((cube.min[i] - ray.origin[i]) * ray.direction[i],
               (cube.max[i] - ray.origin[i]) * ray.direction[i])
    ELSE IF ray.origin[i] >= cube.max[i] THEN -Inf ELSE Inf

\* entry: the greatest of the per-axis minima; exit: the least of the maxima.
Entry == Max(Max(Near(1), Near(2)), Near(3))
Exit  == Min(Min(Far(1), Far(2)), Far(3))

\* C20: Cube::ray_intersect reports no hit exactly when exit < 0 or
\* entry > exit, and otherwise the distance entry if entry >= 0 and exit if
\* not, which is never negative and is a point of the box; a ray that on
\* some axis starts outside the slab and does not move toward it, and so
\* every ray starting outside and pointing away on every axis, gets no hit;
\* the ray from (0, 0, 5) toward the origin hits the unit box at 4.5.
C20_SlabTest ==
    hit # NoIntersect =>
      /\ ~hit.is_intersecting <=> (Exit < 0 \/ Entry > Exit)
      /\ hit.is_intersecting =>
            /\ hit.distance = (IF Entry >= 0 THEN Entry ELSE Exit)
            /\ hit.distance >= 0 /\ hit.distance < Inf
            /\ \A i \in 1 .. 3 :
                  /\ cube.min[i] <= ray.origin[i] + hit.distance * ray.direction[i]
                  /\ ray.origin[i] + hit.distance * ray.direction[i] <= cube.max[i]
      /\ (\E i \in 1 .. 3 :
             \/ ray.origin[i] > cube.max[i] /\ ray.direction[i] >= 0
             \/ ray.origin[i] < cube.min[i] /\ ray.direction[i] <= 0)
           => ~hit.is_intersecting
      /\ (\A i \in 1 .. 3 :
             \/ ray.origin[i] > cube.max[i] /\ ray.direction[i] > 0
             \/ ray.origin[i] < cube.min[i] /\ ray.direction[i] < 0)
           => ~hit.is_intersecting
      /\ (/\ cube = [min |-> <<-1, -1, -1>>, max |-> <<1, 1, 1>>]
          /\ ray = [origin |-> <<0, 0, 10>>, direction |-> <<0, 0, -1>>])
           => (hit.is_intersecting /\ hit.distance = 9)

\* The ray from (0, 0, 5) straight down the z axis, with two direction
\* components exactly zero, has hit the unit box at 4.5.
C20_Witness ==
    /\ cube = [min |-> <<-1, -1, -1>>, max |-> <<1, 1, 1>>]
    /\ ray = [origin |-> <<0, 0, 10>>, direction |-> <<0, 0, -1>>]
    /\ hit.is_intersecting
    /\ hit.distance = 9

\* C21: for a hit point at the centre of one of the six faces of a box,
\* Cube::get_normal returns the outward unit vector of that face.
C21_FaceCentreNormal ==
    normal # <<0, 0, 0>> =>
      \A i \in 1 .. 3 :
        (/\ hit_point[i] = cube.min[i] \/ hit_point[i] = cube.max[i]
         /\ \A j \in (1 .. 3) \ {i} : 2 * hit_point[j] = cube.min[j] + cube.max[j])
        => normal = [j \in 1 .. 3 |-> IF j # i THEN 0
                                       ELSE IF hit_point[i] = cube.max[i] THEN 1 ELSE -1]

\* The centre of the -y face of the box of unequal sides got its normal.
C21_Witness ==
    /\ D2(cube)[1] # D2(cube)[2]
    /\ hit_point = <<1, -3, 0>>
    /\ normal = <<0, -1, 0>>

\* get_normal has returned without any of its three bias tests firing, and
\* the largest absolute offset from the centre is found on the axes of T,
\* which are two or three.
TiedOn(T) ==
    /\ normal # <<0, 0, 0>>
    /\ \A i \in 1 .. 3 : ~OverBias(cube, hit_point, i)
    /\ Cardinality(T) >= 2
    /\ T = {i \in 1 .. 3 :
              \A j \in 1 .. 3 : Abs(P2(cube, hit_point)[i]) >= Abs(P2(cube, hit_point)[j])}

\* C24 as stated: on a tie of the largest absolute offsets the normal is on
\* the first of the tied axes in the order x, y, z.
C24_TieFirstAxis ==
    \A T \in SUBSET (1 .. 3) :
      TiedOn(T) => \E i \in T : normal[i] # 0 /\ \A j \in T : i <= j

\* C24, amended: on a tie of the largest absolute offsets the normal is on
\* the last of the tied axes in the order x, y, z (y on an x-y tie, z on
\* every tie that includes z), with the sign of the offset on that axis.
C24_TieLastAxis ==
    \A T \in SUBSET (1 .. 3) :
      TiedOn(T) =>
        \E i \in T : /\ \A j \in T : i >= j
                      /\ normal = AxisVector(i, IF 2 * hit_point[i] >= cube.min[i] + cube.max[i]
                                                  THEN 1 ELSE -1)

\* A point of the edge of the cube between its +x and -y faces got the
\* normal of the -y face.
C24_Witness ==
    /\ TiedOn({1, 2})
    /\ hit_point = <<2, -2, 0>>
    /\ normal = <<0, -1, 0>>

\* C25: for a box of any dimensions and a hit point in the interior of one
\* of its faces (on the face plane of one axis, strictly between the planes
\* of the other two), Cube::get_normal returns the outward unit normal of
\* that face.
C25_FaceInteriorNormal ==
    normal # <<0, 0, 0>> =>
      \A i \in 1 .. 3 :
        (/\ hit_point[i] = cube.min[i] \/ hit_point[i] = cube.max[i]
         /\ \A j \in (1 .. 3) \ {i} :
               cube.min[j] < hit_point[j] /\ hit_point[j] < cube.max[j])
        => normal = [j \in 1 .. 3 |-> IF j # i THEN 0
                                       ELSE IF hit_point[i] = cube.max[i] THEN 1 ELSE -1]

\* C22: Triangle::intersect returns a distance t only when a is not zero,
\* t > 0.001 and the point of the ray at t is the point v0 + u * edge1 +
\* v * edge2 of the triangle with u >= 0, v >= 0 and u + v <= 1; a triangle
\* of zero area, and a ray parallel to the triangle's plane, get no hit
\* whatever the origin and the direction.
C22_TriangleHit ==
    tri_t # NotCalled =>
      LET edge1 == Sub(triangle[2], triangle[1])
          edge2 == Sub(triangle[3], triangle[1])
          A     == Abs(Dot(ray.direction, Cross(edge1, edge2)))
      IN  /\ tri_t # None =>
                /\ A > 0
                /\ 1000 * tri_t[1] > tri_t[2]
                /\ \E U \in 0 .. A, V \in 0 .. A :
                      /\ U + V <= A
                      /\ \A i \in 1 .. 3 :
                            A * (tri_t[2] * (ray.origin[i] - triangle[1][i])
                                   + tri_t[1] * ray.direction[i])
                              = tri_t[2] * (U * edge1[i] + V * edge2[i])
          /\ Cross(edge1, edge2) = <<0, 0, 0>> => tri_t = None
          /\ A = 0 => tri_t = None

\* The ray from (0, 0, 1) straight down has hit the triangle of the plane
\* z = 0 in its interior.
C22_Witness ==
    /\ triangle[1] = <<-1, -1, 0>>
    /\ ray = [origin |-> <<0, 0, 1>>, direction |-> <<0, 0, -1>>]
    /\ tri_t = <<1, 1>>

\* C23: every hit reported by the box slab test has a distance strictly
\* greater than zero, so a ray that starts on the surface of the box reports
\* no hit at t = 0.
C23_HitBeyondEpsilon ==
    hit.is_intersecting => hit.distance > 0

\* C26: on a non-emissive hit below the ceiling on a material with
\* reflectivity r > 0 and transparency t > 0 whose refraction has a direction,
\* trace_ray calls itself for the reflection and then for the refraction,
\* each with depth + 1, and returns
\* clamp((local * (1 - r) + reflected * r) * (1 - t) + refracted * t);
\* with r = 0 and t = 0 it calls itself not at all and returns after exactly
\* two scene queries.
C26_IndependentDials ==
    [][
        /\ (/\ EntersLit
            /\ Top.hit.reflectivity > 0
            /\ Top.hit.transparency > 0 /\ Top.hit.refracts) =>
              /\ Len(stack') = Len(stack) + 1
              /\ stack'[Len(stack)] = [Top EXCEPT !.pc = "reflect", !.color = Local(Top.hit)]
              /\ stack'[Len(stack')].depth = Top.depth + 1
              /\ stack'[Len(stack')].pc = "enter"
        /\ (/\ ReflectionBack
            /\ Top.hit.transparency > 0 /\ Top.hit.refracts) =>
              /\ Top.hit.reflectivity > 0
              /\ Len(stack') = Len(stack) + 1
              /\ stack'[Len(stack)] =
                    [Top EXCEPT !.pc = "refract",
                                !.color = CAdd(CScale(Top.color, One - Top.hit.reflectivity),
                                               CScale(color, Top.hit.reflectivity))]
              /\ stack'[Len(stack')].depth = Top.depth + 1
              /\ stack'[Len(stack')].pc = "enter"
        /\ (/\ stack # <<>>
            /\ Top.pc = "refract"
            /\ Top.hit.reflectivity > 0) =>
              /\ Top.hit.transparency > 0 /\ Top.hit.refracts
              /\ stack' = Pop
              /\ ret' = "lit"
              /\ color' = clamp(CAdd(CScale(Top.color, One - Top.hit.transparency),
                                     CScale(color, Top.hit.transparency)))
        /\ (EntersLit /\ Top.hit.reflectivity = 0 /\ Top.hit.transparency = 0) =>
              /\ stack' = Pop
              /\ ret' = "lit"
              /\ queries' = 2
      ]_vars

\* A surface with both dials half open, hit by the primary ray, has its
\* refraction call back after its reflection call.
C26_Witness ==
    /\ Len(stack) = 1
    /\ Top.pc = "refract"
    /\ Top.hit.reflectivity > 0
    /\ Top.hit.transparency > 0 /\ Top.hit.refracts
    /\ Top.hit.reflectivity < One /\ Top.hit.transparency < One
    /\ ret # "none"

\* C27: while auto_quality stays on, quality_level changes only in an
\* iteration that makes a check (the timer had reached FPS_CHECK_INTERVAL
\* with at least 5 samples in the history, and is reset), by at most one
\* level, and not at all when the average FPS of the check lies within
\* [LOW_FPS_THRESHOLD, HIGH_FPS_THRESHOLD]; the history never holds more than
\* 10 samples.
C27_Hysteresis ==
    [][
        /\ Len(fps_history') <= 10
        /\ (auto_quality /\ auto_quality') =>
              /\ quality_level' # quality_level =>
                    /\ avg_fps' >= 0
                    /\ fps_check_timer' = 0
                    /\ Len(fps_history') >= 5
                    /\ \E dt \in FrameTimes : fps_check_timer + dt >= FPS_CHECK_INTERVAL
              /\ quality_level' - quality_level \in {-1, 0, 1}
              /\ (avg_fps' >= LOW_FPS_THRESHOLD /\ avg_fps' <= HIGH_FPS_THRESHOLD)
                    => quality_level' = quality_level
      ]_vars

\* A check in auto mode has found an average within the band, over a full
\* history, at a level above the user's.
C27_Witness ==
    /\ auto_quality
    /\ Len(fps_history) = 10
    /\ avg_fps >= LOW_FPS_THRESHOLD /\ avg_fps <= HIGH_FPS_THRESHOLD
    /\ quality_level > manual_quality_level

\* C28: whatever keys are pressed and whatever FPS is observed,
\* quality_level and manual_quality_level are 0, 1 or 2, the render_scale
\* handed to render_scene is 4, 2 or 1, and quality_level is
\* manual_quality_level whenever auto_quality is off.
C28_ControllerState ==
    /\ quality_level \in {0, 1, 2}
    /\ manual_quality_level \in {0, 1, 2}
    /\ render_scale \in {4, 2, 1}
    /\ render_scale = (IF quality_level = 0 THEN 4 ELSE IF quality_level = 1 THEN 2 ELSE 1)
    /\ ~auto_quality => quality_level = manual_quality_level

\* Auto mode has been switched on, has taken FPS samples and has been
\* switched off again with the user's level at 0: render_scene gets
\* render_scale 4.
C28_Witness ==
    /\ ~auto_quality
    /\ fps_history # <<>>
    /\ quality_level = 0 /\ manual_quality_level = 0
    /\ render_scale = 4

\* C29: the time of day with which trace_ray samples the skybox for a ray
\* that misses is the day_time of the main loop in that frame.
C29_SkyAtDayTime ==
    sample_time >= 0 => sample_time = day_time

\* C30: Skybox::sample adds light of the sun only when day_time < 0.5 and
\* light of the moon only when day_time > 0.5, never both and neither at
\* 0.5; the sun adds its disk colour times 5 in the core or else its glow
\* colour times 2 in the glow band, scaled by the power curve and by
\* 1 - 2 * day_time, the moon its disk colour times 3 or else its glow colour,
\* scaled by the power curve and by 2 * (day_time - 0.5); the colour returned
\* is the sum of the base colour and of these, clamped to [0, 1].
C30_SunAndMoon ==
    sky_out # <<>> =>
      LET d == sky_args.day_time
          c == sky_args.cos
          k == sky_args.shape
      IN  /\ sky_out.sun # Black => d < 50
          /\ sky_out.moon # Black => d > 50
          /\ sky_out.sun = Black \/ sky_out.moon = Black
          /\ \A i \in 1 .. 3 :
                /\ 100 * sky_out.sun[i] =
                      (IF d >= 50 THEN 0
                       ELSE IF 10 * c >= 96593 THEN <<1000, 1000, 950>>[i] * 5 * k * (100 - 2 * d)
                       ELSE IF 10 * c >= 86603 THEN <<1000, 900, 700>>[i] * 2 * k * (100 - 2 * d)
                       ELSE 0)
                /\ 100 * sky_out.moon[i] =
                      (IF d <= 50 THEN 0
                       ELSE IF 10 * (-c) >= 99027 THEN <<900, 900, 1000>>[i] * 3 * k * 2 * (d - 50)
                       ELSE IF 10 * (-c) >= 97815 THEN <<700, 700, 900>>[i] * k * 2 * (d - 50)
                       ELSE 0)
                /\ sky_out.color[i] >= 0 /\ sky_out.color[i] <= SkyOne
                /\ sky_out.color[i] =
                      (IF sky_args.base[i] + sky_out.sun[i] + sky_out.moon[i] > SkyOne
                         THEN SkyOne
                         ELSE sky_args.base[i] + sky_out.sun[i] + sky_out.moon[i])

\* A ray straight at the moon late in the night: the moon's disk has been
\* added at full brightness and the sum has been clamped.
C30_Witness ==
    /\ sky_out # <<>>
    /\ sky_args.day_time = 99 /\ sky_args.cos = -10000 /\ sky_args.shape = 2
    /\ sky_out.sun = Black
    /\ sky_out.moon # Black
    /\ sky_out.color = <<SkyOne, SkyOne, SkyOne>>

====
